---- MODULE Spec2Model ----
(***************************************************************************)
(* A model of tvtoday's core: the attribute filter engine and its record   *)
(* serialization (model/filter.rs), the filter file codec                  *)
(* (model/filter_file.rs) and the TvSpielfilm provider                     *)
(* (model/providers/tv_spielfilm.rs).                                      *)
(*                                                                         *)
(* A Rust String is a sequence of tokens.  A token is one character that   *)
(* matters to some conversion (",", "\"", "\n", " ") or a run of ordinary  *)
(* characters ("ZDF", "name").  Option<T> is a sequence of length at most  *)
(* one: None is <<>> and Some(x) is <<x>>.                                 *)
(***************************************************************************)
EXTENDS Integers, Sequences, FiniteSets, TLC

VARIABLES
    channel_filters,   \* ProgramFilter.channel_filters: Filters<Channel, ChannelAttribute>
    movie_filters,     \* ProgramFilter.movie_filters: Filters<Movie, MovieAttribute>
    added,             \* the FilterType values handed to add, oldest first
    records,           \* the last Vec<[String; 2]> made from the filter, with the filter it was made of
    decoded,           \* the last result of the conversion from such a list
    input,             \* a record list handed to the conversion from Vec<[String; 2]>
    output,            \* what that conversion returned, and the re-encoding of its result
    program,           \* the Program handed to ProgramFilter::filter
    filtered,          \* what ProgramFilter::filter returned
    lines,             \* the text lines the filter file was made of, each a sequence of fields
    file,              \* the filter file: None when absent, else Some(its bytes)
    save,              \* the last write_to_path: the filter, whether it was the first write, its result
    load,              \* the last read_from_path since the last write: its result
    more_information_urls,  \* TvSpielfilm.more_information_urls: HashMap<Movie, String>
    fetched,           \* the last get_program: what the network served, and how it ended
    calls,             \* the number of provider calls made
    info,              \* the last get_more_information: its movie, what the network served, its result
    heap,              \* the TvSpielfilm objects made so far, each its more_information_urls
    win_model,         \* WinModel: provider, an index of heap
    list_model,        \* MovieListModel: program, provider, and the rows of the ListBox
    page_model,        \* MoviePageModel: channel, movie, provider
    streams,           \* the messages emitted to Win, MovieList and MoviePage, not yet handled
    workers,           \* the threads spawned and still running
    widgets,           \* the number of ListBoxRow widgets made so far
    clicks,            \* the number of user actions so far
    reloaded,          \* the last ReloadFinished handled: its result, the filter and program it met
    panic              \* Some(message) once the main thread panicked

vars == <<channel_filters, movie_filters, added, records, decoded,
          input, output, program, filtered, lines, file, save, load,
          more_information_urls, fetched, calls, info,
          heap, win_model, list_model, page_model, streams, workers, widgets,
          clicks, reloaded, panic>>

providerVars == <<more_information_urls, fetched, calls, info>>
guiVars == <<heap, win_model, list_model, page_model, streams, workers, widgets,
             clicks, reloaded, panic>>

convVars == <<records, decoded>>
decodeVars == <<input, output>>
applyVars == <<program, filtered>>
fileVars == <<lines, file, save, load>>

filterVars == <<channel_filters, movie_filters, added>>

----------------------------------------------------------------------------
(* Bounds of the model. *)

\* The number of add calls on one ProgramFilter.
MaxAdds == 3
\* The number of records of a hand-made record list.
MaxRecords == 3
\* The number of add calls before a program is filtered.
MaxRules == 2
\* The number of (Channel, Movie) pairs of a Program.
MaxPairs == 3
\* The number of text lines of a hand-made filter file.
MaxLines == 3
\* The number of add calls before a filter is written to the file.
MaxWritten == 2
\* The number of rows of a listing page.
MaxRows == 2
\* The number of calls made on one provider.
MaxCalls == 3
\* The number of user actions in the window.
MaxClicks == 1
\* The number of user actions where only reloads and selections are followed.
MaxTaps == 2

----------------------------------------------------------------------------
(* Option and Result. *)

None == <<>>
Some(x) == <<x>>
IsSome(o) == Len(o) = 1
Unwrap(o) == o[1]

Ok(x) == [ok |-> TRUE, val |-> x]
Err(e) == [ok |-> FALSE, err |-> e]

\* All sequences over S of length at most n.
SeqsUpTo(S, n) == UNION {[1..k -> S] : k \in 0..n}

----------------------------------------------------------------------------
(* The strings of the model. *)

Empty == <<>>
ZDF == <<"ZDF">>
Zdf == <<"zdf">>
ZDFSpace == <<"ZDF", " ">>

Comma == ","
Quote == "\""
LF == "\n"
WithComma == <<"a", Comma, "b">>
WithQuote == <<Quote, "a">>
WithLF == <<"a", LF>>

TagName == <<"name">>
TagTitle == <<"title">>
TagGenre == <<"genre">>
TagDivision == <<"division">>
\* Tags no decoder knows: the test's "nan", a tag in another case, the empty tag.
TagNan == <<"nan">>
TagNameUpper == <<"Name">>

----------------------------------------------------------------------------
(* model/program.rs *)

Channel(name, icon) == [name |-> name, icon |-> icon]
ChannelNew(name) == Channel(name, None)
ChannelGetName(channel) == channel.name

Movie(title, year, genre, division, description) ==
    [title |-> title, year |-> year, genre |-> genre, division |-> division,
     description |-> description]
MovieNew(title) == Movie(title, None, None, None, None)
MovieGetTitle(movie) == movie.title
MovieGetGenre(movie) == movie.genre
MovieGetDivision(movie) == movie.division

ProgramNew == <<>>
ProgramAdd(prog, channel, movie) == Append(prog, <<channel, movie>>)

----------------------------------------------------------------------------
(* model/filter.rs: the attributes. *)

Name(v) == [variant |-> "Name", value |-> v]
Title(v) == [variant |-> "Title", value |-> v]
Genre(v) == [variant |-> "Genre", value |-> v]
Division(v) == [variant |-> "Division", value |-> v]

FilterTypeChannel(c) == [type |-> "Channel", attr |-> c]
FilterTypeMovie(m) == [type |-> "Movie", attr |-> m]

\* impl From<ChannelAttribute> for [String; 2]
ChannelAttributeInto(item) == <<TagName, item.value>>

\* impl TryFrom<[String; 2]> for ChannelAttribute
ChannelAttributeTryFrom(item) ==
    IF item[1] = TagName THEN Ok(Name(item[2])) ELSE Err("unit")

\* impl Filter<Channel> for ChannelAttribute
ChannelAttributeMatches(self, channel) == self.value = ChannelGetName(channel)

\* MovieAttributeInto with the genre written under the title's tag.
MovieAttributeIntoGenreAsTitle(item) ==
    CASE item.variant = "Title" -> <<TagTitle, item.value>>
      [] item.variant = "Genre" -> <<TagTitle, item.value>>
      [] item.variant = "Division" -> <<TagDivision, item.value>>

\* impl From<MovieAttribute> for [String; 2]
MovieAttributeInto(item) ==
    CASE item.variant = "Title" -> <<TagTitle, item.value>>
      [] item.variant = "Genre" -> <<TagGenre, item.value>>
      [] item.variant = "Division" -> <<TagDivision, item.value>>

\* impl TryFrom<[String; 2]> for MovieAttribute
MovieAttributeTryFrom(item) ==
    CASE item[1] = TagTitle -> Ok(Title(item[2]))
      [] item[1] = TagGenre -> Ok(Genre(item[2]))
      [] item[1] = TagDivision -> Ok(Division(item[2]))
      [] OTHER -> Err("unit")

\* MovieAttributeMatches with an absent genre or division read as the empty string.
MovieAttributeMatchesAbsentAsEmpty(self, movie) ==
    CASE self.variant = "Title" -> self.value = MovieGetTitle(movie)
      [] self.variant = "Genre" ->
            self.value = (IF IsSome(MovieGetGenre(movie))
                          THEN Unwrap(MovieGetGenre(movie)) ELSE Empty)
      [] self.variant = "Division" ->
            self.value = (IF IsSome(MovieGetDivision(movie))
                          THEN Unwrap(MovieGetDivision(movie)) ELSE Empty)

\* impl Filter<Movie> for MovieAttribute
MovieAttributeMatches(self, movie) ==
    CASE self.variant = "Title" -> self.value = MovieGetTitle(movie)
      [] self.variant = "Genre" -> Some(self.value) = MovieGetGenre(movie)
      [] self.variant = "Division" -> Some(self.value) = MovieGetDivision(movie)

----------------------------------------------------------------------------
(* model/filter.rs: Filters<T, F>, a Vec of predicates. *)

\* trait Filter<T>: f.matches(item), by the implementation of f's type.
FilterMatches(f, item) ==
    IF f.variant = "Name" THEN ChannelAttributeMatches(f, item)
    ELSE MovieAttributeMatches(f, item)

\* f.clone().into(), by the implementation of f's type.
FilterInto(f) ==
    IF f.variant = "Name" THEN ChannelAttributeInto(f) ELSE MovieAttributeInto(f)

FiltersNew == <<>>
FiltersAdd(self, filter) == Append(self, filter)

\* self.filters.iter().any(|f| f.matches(item)): the first match ends the walk.
RECURSIVE FiltersAny(_, _, _)
FiltersAny(self, item, i) ==
    IF i > Len(self) THEN FALSE
    ELSE IF FilterMatches(self[i], item) THEN TRUE
    ELSE FiltersAny(self, item, i + 1)

\* FiltersMatches asking every filter to match (all in place of any).
FiltersMatchesAll(self, item) ==
    \A i \in 1..Len(self) : FilterMatches(self[i], item)

FiltersMatches(self, item) == FiltersAny(self, item, 1)

\* impl From<Filters<T, F>> for Vec<[String; 2]>
FiltersInto(item) == [i \in 1..Len(item) |-> FilterInto(item[i])]

----------------------------------------------------------------------------
(* model/filter.rs: ProgramFilter. *)

ProgramFilter(cf, mf) == [channel_filters |-> cf, movie_filters |-> mf]
ProgramFilterNew == ProgramFilter(FiltersNew, FiltersNew)

\* The ProgramFilter the state holds.
Self == ProgramFilter(channel_filters, movie_filters)

\* ProgramFilterInto with the movie records first.
ProgramFilterIntoMoviesFirst(item) ==
    FiltersInto(item.movie_filters) \o FiltersInto(item.channel_filters)

\* impl From<ProgramFilter> for Vec<[String; 2]>: channels.append(&mut movies)
ProgramFilterInto(item) ==
    FiltersInto(item.channel_filters) \o FiltersInto(item.movie_filters)

\* The pair (ChannelAttribute::try_from(i.clone()), MovieAttribute::try_from(i)).
TryBoth(i) == <<ChannelAttributeTryFrom(i), MovieAttributeTryFrom(i)>>

\* Ambiguous without the case that neither decoder knows the tag.
AmbiguousBothOnly(cm) == cm[1].ok /\ cm[2].ok

\* c.is_err() && m.is_err() || c.is_ok() && m.is_ok()
Ambiguous(cm) == (~cm[1].ok /\ ~cm[2].ok) \/ (cm[1].ok /\ cm[2].ok)

\* OkValues collected last to first.
OkValuesReversed(filters, side) ==
    LET oks == SelectSeq(filters, LAMBDA cm : cm[side].ok)
    IN  [k \in 1..Len(oks) |-> oks[Len(oks) + 1 - k][side].val]

\* filters.iter().cloned().map(one side).filter(is_ok).map(unwrap).collect()
OkValues(filters, side) ==
    LET oks == SelectSeq(filters, LAMBDA cm : cm[side].ok)
    IN  [k \in 1..Len(oks) |-> oks[k][side].val]

\* impl TryFrom<Vec<[String; 2]>> for ProgramFilter
ProgramFilterTryFrom(item) ==
    LET filters == [k \in 1..Len(item) |-> TryBoth(item[k])]
    IN  IF \E k \in 1..Len(filters) : Ambiguous(filters[k])
        THEN Err("unit")
        ELSE Ok(ProgramFilter(OkValues(filters, 1), OkValues(filters, 2)))

\* ProgramFilterMatches asking both sub-filters to match.
ProgramFilterMatchesBoth(self, channel, movie) ==
    FiltersMatches(self.channel_filters, channel)
        /\ FiltersMatches(self.movie_filters, movie)

\* ProgramFilter::matches
ProgramFilterMatches(self, channel, movie) ==
    FiltersMatches(self.channel_filters, channel)
        \/ FiltersMatches(self.movie_filters, movie)

\* ProgramFilter::filter: program.iter().filter(|(c, m)| !self.matches((c, m))).cloned().collect()
RECURSIVE FilterFrom(_, _, _)
FilterFrom(self, prog, i) ==
    IF i > Len(prog) THEN <<>>
    ELSE IF ~ProgramFilterMatches(self, prog[i][1], prog[i][2])
         THEN <<prog[i]>> \o FilterFrom(self, prog, i + 1)
         ELSE FilterFrom(self, prog, i + 1)

ProgramFilterFilter(self, prog) == FilterFrom(self, prog, 1)

----------------------------------------------------------------------------
(* The csv crate as model/filter_file.rs uses it: a Writer and a Reader with
   their default settings ("," between fields, "\n" after a record, fields
   quoted only when necessary, a quote in a quoted field doubled). *)

\* Whether the writer puts the field in quotes: it holds a delimiter, a quote
\* or a line break.
NeedsQuotes(field) ==
    \E k \in 1..Len(field) : field[k] \in {Comma, Quote, LF}

\* The field with each quote doubled.
RECURSIVE DoubleQuotes(_)
DoubleQuotes(field) ==
    IF field = <<>> THEN <<>>
    ELSE (IF Head(field) = Quote THEN <<Quote, Quote>> ELSE <<Head(field)>>)
             \o DoubleQuotes(Tail(field))

WriteField(field) ==
    IF NeedsQuotes(field) THEN <<Quote>> \o DoubleQuotes(field) \o <<Quote>>
    ELSE field

\* writer.write_record(&c) for c: [String; 2]
WriteRecord(c) == WriteField(c[1]) \o <<Comma>> \o WriteField(c[2]) \o <<LF>>

\* for c in content { writer.write_record(&c)?; }
RECURSIVE WriteRecords(_)
WriteRecords(content) ==
    IF content = <<>> THEN <<>>
    ELSE WriteRecord(Head(content)) \o WriteRecords(Tail(content))

\* The reader's automaton over the bytes from position i on: st is its state,
\* field and record what it has read of the current field and record, done the
\* records it has finished.  A line break at the start of a record is skipped.
RECURSIVE CsvRead(_, _, _, _, _, _)
CsvRead(bytes, i, st, field, record, done) ==
    IF i > Len(bytes)
    THEN IF st = "StartRecord" THEN done ELSE Append(done, Append(record, field))
    ELSE
      LET c == bytes[i]
          EndField == CsvRead(bytes, i + 1, "StartField", <<>>, Append(record, field), done)
          EndRecord == CsvRead(bytes, i + 1, "StartRecord", <<>>, <<>>,
                               Append(done, Append(record, field)))
          Copy(to) == CsvRead(bytes, i + 1, to, Append(field, c), record, done)
      IN  CASE st = "StartRecord" ->
                 IF c = LF THEN CsvRead(bytes, i + 1, "StartRecord", <<>>, <<>>, done)
                 ELSE CsvRead(bytes, i, "StartField", <<>>, <<>>, done)
            [] st = "StartField" ->
                 IF c = Quote
                 THEN CsvRead(bytes, i + 1, "InQuotedField", <<>>, record, done)
                 ELSE IF c = Comma THEN EndField
                 ELSE IF c = LF THEN EndRecord
                 ELSE Copy("InField")
            [] st = "InField" ->
                 IF c = Comma THEN EndField
                 ELSE IF c = LF THEN EndRecord
                 ELSE Copy("InField")
            [] st = "InQuotedField" ->
                 IF c = Quote
                 THEN CsvRead(bytes, i + 1, "InDoubleEscapedQuote", field, record, done)
                 ELSE Copy("InQuotedField")
            [] st = "InDoubleEscapedQuote" ->
                 IF c = Quote THEN Copy("InQuotedField")
                 ELSE IF c = Comma THEN EndField
                 ELSE IF c = LF THEN EndRecord
                 ELSE Copy("InField")

\* reader.records(): the records of the bytes, in order.
ReaderRecords(bytes) == CsvRead(bytes, 1, "StartRecord", <<>>, <<>>, <<>>)

----------------------------------------------------------------------------
(* model/filter_file.rs *)

\* error.rs: io::Error and csv::Error both become Error::ParsingFile.
ParsingFile == "ParsingFile"

\* OpenTruncate without truncate(true): the bytes stay.
OpenKeep(before) == before

\* OpenOptions::new().write(true).create(true).truncate(true).open(path): the
\* file's bytes once it is open.
OpenTruncate(before) == <<>>

\* The file's bytes after bytes are written at its start.
Written(opened, bytes) ==
    bytes \o SubSeq(opened, Len(bytes) + 1, Len(opened))

\* ProgramFilter::write_to_path, its file system acting as io says: "open"
\* fails the open, "write" a write_record or the flush, with the first n bytes
\* on disk.  The result and the file afterwards.
WriteToPathResult(self, before, io, n) ==
    LET content == ProgramFilterInto(self)
        bytes == WriteRecords(content)
        opened == OpenTruncate(IF IsSome(before) THEN Unwrap(before) ELSE <<>>)
    IN  CASE io = "open" -> [res |-> Err(ParsingFile), file |-> before]
          [] io = "write" ->
                [res |-> Err(ParsingFile),
                 file |-> Some(Written(opened, SubSeq(bytes, 1, n)))]
          [] io = "ok" -> [res |-> Ok("unit"), file |-> Some(Written(opened, bytes))]

\* WrongLen that lets longer records pass.
WrongLenShortOnly(record) == Len(record) < 2

\* if record.len() != 2
WrongLen(record) == Len(record) # 2

\* The loop of read_from_path over the records from k on.  The reader is not
\* flexible: a record as long as no other before it is a csv::Error.
RECURSIVE ReadRecords(_, _, _)
ReadRecords(recs, k, content) ==
    IF k > Len(recs) THEN Ok(content)
    ELSE IF Len(recs[k]) # Len(recs[1]) THEN Err(ParsingFile)
    ELSE IF WrongLen(recs[k]) THEN Err(ParsingFile)
    ELSE ReadRecords(recs, k + 1, Append(content, <<recs[k][1], recs[k][2]>>))

\* ProgramFilter::read_from_path, its file system acting as io says: "open"
\* fails the open, "read" a read.  An absent file cannot be opened.
ReadFromPathResult(f, io) ==
    IF f = None \/ io # "ok" THEN Err(ParsingFile)
    ELSE LET content == ReadRecords(ReaderRecords(Unwrap(f)), 1, <<>>)
         IN  IF ~content.ok THEN content
             ELSE LET filter == ProgramFilterTryFrom(content.val)
                  IN  IF filter.ok THEN filter ELSE Err(ParsingFile)

----------------------------------------------------------------------------
(* model/program.rs: MovieBuilder. *)

\* A builder that starts from a movie with an empty description.
MovieBuilderNewDescribed(title) == Movie(title, None, None, None, Some(Empty))

MovieBuilderNew(title) == MovieNew(title)
WithYear(movie, year) == [movie EXCEPT !.year = Some(year)]
WithGenre(movie, genre) == [movie EXCEPT !.genre = Some(genre)]
WithDivision(movie, division) == [movie EXCEPT !.division = Some(division)]

----------------------------------------------------------------------------
(* The str methods model/providers/tv_spielfilm.rs calls. *)

Space == " "
Programm == " Programm"

\* str::trim: without the white space at both ends.
RECURSIVE TrimStart(_)
TrimStart(str) ==
    IF str # <<>> /\ Head(str) \in {Space, LF} THEN TrimStart(Tail(str)) ELSE str

RECURSIVE TrimEnd(_)
TrimEnd(str) ==
    IF str # <<>> /\ str[Len(str)] \in {Space, LF}
    THEN TrimEnd(SubSeq(str, 1, Len(str) - 1))
    ELSE str

Trim(str) == TrimEnd(TrimStart(str))

\* str.split(" ").collect::<Vec<&str>>().first().unwrap(): up to the first space.
RECURSIVE SplitFirst(_)
SplitFirst(str) ==
    IF str = <<>> \/ Head(str) = Space THEN <<>>
    ELSE <<Head(str)>> \o SplitFirst(Tail(str))

\* str.split(" ").last().unwrap(): after the last space.
RECURSIVE SplitLast(_)
SplitLast(str) ==
    IF str = <<>> \/ str[Len(str)] = Space THEN <<>>
    ELSE SplitLast(SubSeq(str, 1, Len(str) - 1)) \o <<str[Len(str)]>>

\* str.parse::<u32>(): a run of digits that fits.
ParseU32(str) ==
    CASE str = <<"2021">> -> Ok(2021)
      [] str = <<"1999">> -> Ok(1999)
      [] OTHER -> Err("ParseIntError")

\* if channel_str.ends_with(" Programm") { &channel_str[0..channel_str.len() - 9] }
StripProgramm(str) ==
    IF str # <<>> /\ str[Len(str)] = Programm
    THEN SubSeq(str, 1, Len(str) - 1)
    ELSE str

----------------------------------------------------------------------------
(* model/providers/tv_spielfilm.rs *)

Networking == "Networking"
ParsingWebsite == "ParsingWebsite"

\* A thread that panicked returns nothing.
Panic(message) == [ok |-> FALSE, panic |-> message]

ICON_IMAGE_LIST ==
    <<<<"Das", Space, "Erste">>, <<"ZDF">>, <<"RTL">>, <<"SAT.1">>, <<"ProSieben">>,
      <<"kabel", Space, "eins">>, <<"RTL", Space, "II">>, <<"VOX">>,
      <<"TELE", Space, "5">>, <<"3sat">>, <<"ARTE">>, <<"ZDFneo">>, <<"ONE">>,
      <<"ServusTV", Space, "Deutschland">>, <<"NITRO">>, <<"DMAX">>, <<"sixx">>,
      <<"SAT.1", Space, "Gold">>, <<"ProSieben", Space, "MAXX">>,
      <<"COMEDY", Space, "CENTRAL">>, <<"RTLplus">>, <<"WDR">>, <<"NDR">>, <<"BR">>,
      <<"SWR/SR">>, <<"HR">>, <<"MDR">>, <<"RBB">>, <<"tv.berlin">>>>

\* ICON_IMAGE_LIST.iter().position(|c| c == &channel_str), and the tile cropped
\* at that index: a tile is told by its index.
ChannelIcon(channel_str) ==
    IF \E k \in 1..Len(ICON_IMAGE_LIST) : ICON_IMAGE_LIST[k] = channel_str
    THEN Some(CHOOSE k \in 1..Len(ICON_IMAGE_LIST) :
                  /\ ICON_IMAGE_LIST[k] = channel_str
                  /\ \A j \in 1..(k - 1) : ICON_IMAGE_LIST[j] # channel_str)
    ELSE None

\* HashMap::new()
TvSpielfilmNew == [movie \in {} |-> <<>>]

\* Insert that keeps the value a key already has.
InsertKeepFirst(map, key, value) ==
    [k \in DOMAIN map \cup {key} |-> IF k \in DOMAIN map THEN map[k] ELSE value]

\* HashMap::insert
Insert(map, key, value) ==
    [k \in DOMAIN map \cup {key} |-> IF k = key THEN value ELSE map[k]]

\* Provider::clone for TvSpielfilm
TvSpielfilmClone(urls) == urls

\* The movie a row gives.  A row is what the selectors find in it: channel, the
\* first ".programm-col1 a" with its title attribute; title, genre, division, the
\* inner_html of the first ".col-3 span a strong", ".col-4 span", ".col-5 span";
\* anchor, the first ".col-3 span a" with its title and href attributes.
RowMovie(row) ==
    LET titled == MovieBuilderNew(Unwrap(row.title))
        genred == IF IsSome(row.genre)
                  THEN WithGenre(titled, Trim(Unwrap(row.genre)))
                  ELSE titled
        divisioned == IF IsSome(row.division)
                      THEN WithDivision(genred, SplitFirst(Trim(Unwrap(row.division))))
                      ELSE genred
        year == IF IsSome(row.anchor)
                THEN ParseU32(SplitLast(IF IsSome(Unwrap(row.anchor).title)
                                        THEN Unwrap(Unwrap(row.anchor).title)
                                        ELSE Empty))
                ELSE Err("no anchor")
    IN  IF year.ok THEN WithYear(divisioned, year.val) ELSE divisioned

\* The channel a row gives.
RowChannel(row) ==
    LET channel_str == StripProgramm(Unwrap(Unwrap(row.channel).title))
    IN  Channel(channel_str, ChannelIcon(channel_str))

\* The loop of get_program over the rows from k on: how it ends, and the cache
\* it leaves.
RECURSIVE Rows(_, _, _, _)
Rows(rows, k, prog, urls) ==
    IF k > Len(rows) THEN [res |-> Ok(prog), urls |-> urls]
    ELSE
      LET row == rows[k]
      IN  IF row.channel = None
          THEN [res |-> Err(ParsingWebsite), urls |-> urls]
          ELSE IF Unwrap(row.channel).title = None
          THEN [res |-> Panic("called Option::unwrap() on a None value"),
                urls |-> urls]
          ELSE IF row.title = None
          THEN [res |-> Err(ParsingWebsite), urls |-> urls]
          ELSE
            LET movie == RowMovie(row)
                cached == IF IsSome(row.anchor) /\ IsSome(Unwrap(row.anchor).href)
                          THEN Insert(urls, movie, Unwrap(Unwrap(row.anchor).href))
                          ELSE urls
            IN  Rows(rows, k + 1, ProgramAdd(prog, RowChannel(row), movie), cached)

\* get_program that starts every fetch from an empty cache.
GetProgramResultFresh(urls, listing, sprite) ==
    IF ~listing.ok THEN [res |-> Err(Networking), urls |-> urls]
    ELSE IF ~sprite.ok THEN [res |-> Err(Networking), urls |-> urls]
    ELSE IF ~sprite.val THEN [res |-> Panic("could not decode icons image"), urls |-> urls]
    ELSE Rows(listing.val, 1, ProgramNew, TvSpielfilmNew)

\* TvSpielfilm::get_program.  listing is what the request for URL gives, Err or
\* Ok(the rows of the page); sprite what the request for ICONS_URL gives, Err or
\* Ok(whether the bytes decode as WebP).
GetProgramResult(urls, listing, sprite) ==
    IF ~listing.ok THEN [res |-> Err(Networking), urls |-> urls]
    ELSE IF ~sprite.ok THEN [res |-> Err(Networking), urls |-> urls]
    ELSE IF ~sprite.val THEN [res |-> Panic("could not decode icons image"), urls |-> urls]
    ELSE Rows(listing.val, 1, ProgramNew, urls)

\* Get that looks the movie up by its title alone.
GetByTitle(map, key) ==
    IF \E k \in DOMAIN map : k.title = key.title
    THEN Some(map[CHOOSE k \in DOMAIN map : k.title = key.title])
    ELSE None

\* HashMap::get: Movie derives PartialEq, Eq and Hash over all its fields.
Get(map, key) == IF key \in DOMAIN map THEN Some(map[key]) ELSE None

\* self.more_information_urls.get(movie)
MoreInformationUrl(urls, movie) == Get(urls, movie)

\* Movie::set_description
SetDescription(movie, description) == [movie EXCEPT !.description = description]

\* Paragraph without the "\n\n".
ParagraphBare(inner_html) == inner_html

\* |e| e.inner_html() + "\n\n"
Paragraph(inner_html) == inner_html \o <<LF, LF>>

\* document.select(&selector_description).map(...).collect(), from the k-th
\* matched paragraph on.
RECURSIVE Collect(_, _)
Collect(paragraphs, k) ==
    IF k > Len(paragraphs) THEN Empty
    ELSE Paragraph(paragraphs[k]) \o Collect(paragraphs, k + 1)

\* The requests a get_more_information that finds no URL makes, were it to ask
\* the listing page instead.
RequestsAlways(url_opt) == IF IsSome(url_opt) THEN <<Unwrap(url_opt)>> ELSE <<<<"URL">>>>

\* The requests get_more_information makes: reqwest::get(more_information_url)
\* inside the if let Some, none in the else.
Requests(url_opt) == IF IsSome(url_opt) THEN <<Unwrap(url_opt)>> ELSE <<>>

\* TvSpielfilm::get_more_information.  page is what the request for the URL
\* gives: Err, or Ok(text) with text what reading the body gives, Err or Ok(the
\* inner_html of the paragraphs the selector matches, in document order).  The
\* movie returned and the requests made.
GetMoreInformationResult(urls, movie, page) ==
    LET url_opt == MoreInformationUrl(urls, movie)
        res == IF ~IsSome(url_opt) THEN movie
               ELSE IF ~page.ok THEN movie
               ELSE IF ~page.val.ok THEN movie
               ELSE SetDescription(movie, Some(Collect(page.val.val, 1)))
    IN  [res |-> res, requests |-> Requests(url_opt)]

\* get_more_information that takes the URL it uses out of the cache.
GetMoreInformationUrlsTaken(urls, movie, page) ==
    [k \in DOMAIN urls \ {movie} |-> urls[k]]

\* The cache get_more_information leaves: it takes &self and only reads
\* self.more_information_urls, on the hit, on the miss and on every return.
GetMoreInformationUrls(urls, movie, page) == urls

----------------------------------------------------------------------------
(* The inputs the operations are called with. *)

ChannelAttributes == {Name(ZDF), Name(Zdf), Name(TagTitle)}
MovieAttributes ==
    {Title(ZDF), Title(TagName), Genre(ZDF), Genre(Empty), Division(ZDF), Division(Empty)}
FilterTypes ==
    {FilterTypeChannel(c) : c \in ChannelAttributes}
        \cup {FilterTypeMovie(m) : m \in MovieAttributes}

M1 == MovieNew(ZDF)
M2 == Movie(Zdf, Some(2021), Some(ZDF), Some(Empty), None)
M3 == Movie(TagName, None, Some(Empty), Some(ZDF), None)
Pairs ==
    {<<ChannelNew(ZDF), M1>>, <<ChannelNew(Zdf), M2>>,
     <<ChannelNew(ZDFSpace), M3>>, <<ChannelNew(ZDF), M3>>}

\* The records a hand-made list is made of: every known tag and three unknown ones.
Tags == {TagName, TagTitle, TagGenre, TagDivision, TagNan, TagNameUpper, Empty}
Records == {<<t, v>> : t \in Tags, v \in {ZDF, TagName}}

----------------------------------------------------------------------------
(* Building a ProgramFilter and converting it to records and back. *)

\* No filter file is in play.
InitNoFile ==
    /\ lines = <<>>
    /\ file = None
    /\ save = None
    /\ load = None

\* No window is in play.
InitNoGui ==
    /\ heap = <<>>
    /\ win_model = [provider |-> 0]
    /\ list_model = [program |-> <<>>, provider |-> 0, rows |-> <<>>]
    /\ page_model = [channel |-> <<>>, movie |-> <<>>, provider |-> 0]
    /\ streams = [win |-> <<>>, list |-> <<>>, page |-> <<>>]
    /\ workers = {}
    /\ widgets = 0
    /\ clicks = 0
    /\ reloaded = None
    /\ panic = None

\* TvSpielfilm::new(), and no call made.
InitProvider ==
    /\ more_information_urls = TvSpielfilmNew
    /\ fetched = None
    /\ calls = 0
    /\ info = None
    /\ InitNoGui

InitFilter ==
    /\ channel_filters = ProgramFilterNew.channel_filters
    /\ movie_filters = ProgramFilterNew.movie_filters
    /\ added = <<>>

\* ProgramFilter::add_channel_filter
AddChannelFilter(filter) ==
    /\ channel_filters' = FiltersAdd(channel_filters, filter)
    /\ movie_filters' = movie_filters
    /\ added' = Append(added, FilterTypeChannel(filter))

\* ProgramFilter::add_movie_filter
AddMovieFilter(filter) ==
    /\ movie_filters' = FiltersAdd(movie_filters, filter)
    /\ channel_filters' = channel_filters
    /\ added' = Append(added, FilterTypeMovie(filter))

\* ProgramFilter::add
Add(filter) ==
    IF filter.type = "Channel"
    THEN AddChannelFilter(filter.attr)
    ELSE AddMovieFilter(filter.attr)

\* <Vec<[String; 2]>>::from(filter.clone())
IntoVec ==
    /\ records' = Some([of |-> Self, log |-> added, vec |-> ProgramFilterInto(Self)])
    /\ UNCHANGED <<filterVars, decoded, decodeVars, applyVars, fileVars, providerVars, guiVars>>

\* ProgramFilter::try_from(records)
TryFromVec ==
    /\ IsSome(records)
    /\ decoded' = Some([of |-> Unwrap(records).of,
                        res |-> ProgramFilterTryFrom(Unwrap(records).vec)])
    /\ UNCHANGED <<filterVars, records, decodeVars, applyVars, fileVars, providerVars, guiVars>>

Init ==
    /\ InitFilter
    /\ records = None
    /\ decoded = None
    /\ input = <<>>
    /\ output = None
    /\ program = ProgramNew
    /\ filtered = None
    /\ InitNoFile
    /\ InitProvider

Next ==
    \/ /\ Len(added) < MaxAdds
       /\ \E filter \in FilterTypes : Add(filter)
       /\ UNCHANGED <<convVars, decodeVars, applyVars, fileVars, providerVars, guiVars>>
    \/ /\ Len(added) < MaxAdds
       /\ \E filter \in ChannelAttributes : AddChannelFilter(filter)
       /\ UNCHANGED <<convVars, decodeVars, applyVars, fileVars, providerVars, guiVars>>
    \/ /\ Len(added) < MaxAdds
       /\ \E filter \in MovieAttributes : AddMovieFilter(filter)
       /\ UNCHANGED <<convVars, decodeVars, applyVars, fileVars, providerVars, guiVars>>
    \/ IntoVec
    \/ TryFromVec

Spec == Init /\ [][Next]_vars

----------------------------------------------------------------------------
(* Converting a hand-made record list to a ProgramFilter. *)

\* ProgramFilter::try_from(input)
TryFromInput ==
    /\ output = None
    /\ output' = Some([res |-> ProgramFilterTryFrom(input), back |-> None])
    /\ UNCHANGED <<filterVars, convVars, input, applyVars, fileVars, providerVars, guiVars>>

\* <Vec<[String; 2]>>::from(filter), filter the result of the conversion
IntoVecOutput ==
    /\ IsSome(output)
    /\ Unwrap(output).res.ok
    /\ Unwrap(output).back = None
    /\ output' = Some([Unwrap(output) EXCEPT
                          !.back = Some(ProgramFilterInto(Unwrap(output).res.val))])
    /\ UNCHANGED <<filterVars, convVars, input, applyVars, fileVars, providerVars, guiVars>>

InitDecode ==
    /\ InitFilter
    /\ records = None
    /\ decoded = None
    /\ input \in SeqsUpTo(Records, MaxRecords)
    /\ output = None
    /\ program = ProgramNew
    /\ filtered = None
    /\ InitNoFile
    /\ InitProvider

NextDecode == TryFromInput \/ IntoVecOutput

SpecDecode == InitDecode /\ [][NextDecode]_vars

----------------------------------------------------------------------------
(* Filtering a Program. *)

\* filter.filter(&program)
Filter ==
    /\ filtered' = Some([by |-> Self, res |-> ProgramFilterFilter(Self, program)])
    /\ UNCHANGED <<filterVars, convVars, decodeVars, program, fileVars, providerVars, guiVars>>

InitApply ==
    /\ InitFilter
    /\ records = None
    /\ decoded = None
    /\ input = <<>>
    /\ output = None
    /\ program \in SeqsUpTo(Pairs, MaxPairs)
    /\ filtered = None
    /\ InitNoFile
    /\ InitProvider

NextApply ==
    \/ /\ Len(added) < MaxRules
       /\ \E filter \in FilterTypes : Add(filter)
       /\ UNCHANGED <<convVars, decodeVars, applyVars, fileVars, providerVars, guiVars>>
    \/ Filter

SpecApply == InitApply /\ [][NextApply]_vars

----------------------------------------------------------------------------
(* Reading a hand-made filter file. *)

\* A field of a text line: its text, and whether it is typed in quotes.
Plain(text) == [text |-> text, quoted |-> FALSE]
Quoted(text) == [text |-> text, quoted |-> TRUE]

\* The lines a hand-made file is made of: two good ones, an unknown tag, one
\* field, three fields, a blank line, a tag in quotes, an empty value.
LineShapes ==
    {<<Plain(TagName), Plain(ZDF)>>,
     <<Plain(TagTitle), Plain(ZDF)>>,
     <<Plain(TagNan), Plain(ZDF)>>,
     <<Plain(TagName)>>,
     <<Plain(TagName), Plain(ZDF), Plain(ZDF)>>,
     <<Plain(Empty)>>,
     <<Quoted(TagName), Plain(ZDF)>>,
     <<Plain(TagGenre), Plain(Empty)>>}

FieldBytes(f) ==
    IF f.quoted THEN <<Quote>> \o DoubleQuotes(f.text) \o <<Quote>> ELSE f.text

\* The bytes of a line, without its line break.
RECURSIVE LineBytes(_)
LineBytes(line) ==
    IF Len(line) = 1 THEN FieldBytes(line[1])
    ELSE FieldBytes(Head(line)) \o <<Comma>> \o LineBytes(Tail(line))

\* The bytes of a text file, a line break after each line.
RECURSIVE TextBytes(_)
TextBytes(text) ==
    IF text = <<>> THEN <<>>
    ELSE LineBytes(Head(text)) \o <<LF>> \o TextBytes(Tail(text))

\* The same without the last line break.
Chopped(bytes) == SubSeq(bytes, 1, Len(bytes) - 1)

\* ProgramFilter::read_from_path(path)
ReadFromPath(io) ==
    /\ load' = Some([io |-> io, res |-> ReadFromPathResult(file, io)])
    /\ UNCHANGED <<filterVars, convVars, decodeVars, applyVars, lines, file, save, providerVars, guiVars>>

InitRead ==
    /\ InitFilter
    /\ records = None
    /\ decoded = None
    /\ input = <<>>
    /\ output = None
    /\ program = ProgramNew
    /\ filtered = None
    /\ lines \in SeqsUpTo(LineShapes, MaxLines)
    /\ file \in {Some(TextBytes(lines))}
                   \cup (IF lines = <<>> THEN {None}
                         ELSE IF lines[Len(lines)] = <<Plain(Empty)>> THEN {}
                         ELSE {Some(Chopped(TextBytes(lines)))})
    /\ save = None
    /\ load = None
    /\ InitProvider

NextRead == \E io \in {"ok", "open", "read"} : ReadFromPath(io)

SpecRead == InitRead /\ [][NextRead]_vars

----------------------------------------------------------------------------
(* Writing a ProgramFilter to the filter file and reading it back. *)

\* The attributes written: an empty value, and values the writer quotes.
FileRules ==
    {FilterTypeChannel(Name(Empty)), FilterTypeMovie(Title(WithComma)),
     FilterTypeMovie(Genre(WithQuote)), FilterTypeMovie(Division(WithLF))}

\* The lines the file holds before: none (the file absent or empty), one good
\* line, and two lines that are no filter records.
PriorTexts ==
    {<<>>,
     <<<<Plain(TagName), Plain(ZDF)>>>>,
     <<<<Plain(TagNan), Plain(ZDF), Plain(ZDF)>>,
       <<Plain(TagNan), Plain(ZDF), Plain(ZDF)>>>>}

\* filter.write_to_path(path)
WriteToPath(io, n) ==
    LET r == WriteToPathResult(Self, file, io, n)
    IN  /\ save' = Some([of |-> Self, first |-> save = None, res |-> r.res])
        /\ file' = r.file
        /\ load' = None
        /\ UNCHANGED <<filterVars, convVars, decodeVars, applyVars, lines, providerVars, guiVars>>

InitFile ==
    /\ InitFilter
    /\ records = None
    /\ decoded = None
    /\ input = <<>>
    /\ output = None
    /\ program = ProgramNew
    /\ filtered = None
    /\ lines \in PriorTexts
    /\ file \in {Some(TextBytes(lines))} \cup (IF lines = <<>> THEN {None} ELSE {})
    /\ save = None
    /\ load = None
    /\ InitProvider

NextFile ==
    \/ /\ Len(added) < MaxWritten
       /\ \E filter \in FileRules : Add(filter)
       /\ UNCHANGED <<convVars, decodeVars, applyVars, fileVars, providerVars, guiVars>>
    \/ WriteToPath("ok", 0)
    \/ WriteToPath("open", 0)
    \/ \E n \in 0..Len(WriteRecords(ProgramFilterInto(Self))) : WriteToPath("write", n)
    \/ \E io \in {"ok", "open", "read"} : ReadFromPath(io)

SpecFile == InitFile /\ [][NextFile]_vars

----------------------------------------------------------------------------
(* Fetching the program. *)

Anchor(title, href) == [title |-> title, href |-> href]
Row(channel, title, genre, division, anchor) ==
    [channel |-> channel, title |-> title, genre |-> genre, division |-> division,
     anchor |-> anchor]

ChannelZDF == Some([title |-> Some(<<"ZDF", Programm>>)])
ChannelARD == Some([title |-> Some(<<"ARD">>)])

\* Two rows of the same movie on two channels with two detail pages, a row with
\* neither genre, division, year nor detail page, a row of another movie with a
\* detail page, and three faulty rows: no
\* channel anchor, a channel anchor without title attribute, no movie title.
RowHeute ==
    Row(ChannelZDF, Some(<<"Heute">>), Some(<<Space, "News", LF>>),
        Some(<<"Info", Space, "x">>),
        Some(Anchor(Some(<<"Heute", Space, "2021">>), Some(<<"url1">>))))
RowHeuteARD ==
    Row(ChannelARD, Some(<<"Heute">>), Some(<<"News">>), Some(<<"Info">>),
        Some(Anchor(Some(<<"2021">>), Some(<<"url2">>))))
RowFilm ==
    Row(ChannelZDF, Some(<<"Film">>), None, None, Some(Anchor(None, None)))
RowFilmARD ==
    Row(ChannelARD, Some(<<"Film">>), Some(<<"Drama">>), None,
        Some(Anchor(None, Some(<<"url3">>))))
RowNoChannel ==
    Row(None, Some(<<"Heute">>), None, None,
        Some(Anchor(None, Some(<<"url1">>))))
RowNoChannelTitle ==
    Row(Some([title |-> None]), Some(<<"Heute">>), None, None,
        Some(Anchor(None, Some(<<"url1">>))))
RowNoTitle == Row(ChannelZDF, None, Some(<<"News">>), None, None)

RowShapes == {RowHeute, RowHeuteARD, RowFilm, RowNoChannel, RowNoChannelTitle, RowNoTitle}

Listings == {Err("reqwest")} \cup {Ok(rows) : rows \in SeqsUpTo(RowShapes, MaxRows)}
Sprites == {Err("reqwest"), Ok(FALSE), Ok(TRUE)}

\* provider.get_program()
GetProgram(listing, sprite) ==
    LET r == GetProgramResult(more_information_urls, listing, sprite)
    IN  /\ calls < MaxCalls
        /\ more_information_urls' = r.urls
        /\ fetched' = Some([listing |-> listing, sprite |-> sprite, res |-> r.res])
        /\ calls' = calls + 1
        /\ UNCHANGED <<info, filterVars, convVars, decodeVars, applyVars, fileVars, guiVars>>

InitFetch ==
    /\ InitFilter
    /\ records = None
    /\ decoded = None
    /\ input = <<>>
    /\ output = None
    /\ program = ProgramNew
    /\ filtered = None
    /\ InitNoFile
    /\ InitProvider

NextFetch == \E listing \in Listings, sprite \in Sprites : GetProgram(listing, sprite)

SpecFetch == InitFetch /\ [][NextFetch]_vars

----------------------------------------------------------------------------
(* Asking for more information between fetches of the program. *)

\* The listings served while more information is asked for.
InfoListings ==
    {Err("reqwest"), Ok(<<RowHeute>>), Ok(<<RowFilm, RowHeute, RowHeuteARD>>),
     Ok(<<RowFilm>>), Ok(<<RowHeuteARD, RowNoTitle>>), Ok(<<RowFilmARD, RowNoTitle>>)}

\* The movie of RowHeute, built apart from any row.
Heute == Movie(<<"Heute">>, Some(2021), Some(<<"News">>), Some(<<"Info">>), None)

\* Heute, the movies that differ from it in one field, and the movie of RowFilm.
InfoMovies ==
    {Heute,
     [Heute EXCEPT !.title = <<"Film">>],
     [Heute EXCEPT !.year = None],
     [Heute EXCEPT !.year = Some(1999)],
     [Heute EXCEPT !.genre = Some(Empty)],
     [Heute EXCEPT !.division = None],
     [Heute EXCEPT !.description = Some(Empty)],
     [Heute EXCEPT !.description = Some(<<"Text", LF, LF>>)],
     MovieNew(<<"Film">>)}

\* What the request for a detail page gives.
Pages ==
    {Err("reqwest"), Ok(Err("reqwest")),
     Ok(Ok(<<>>)), Ok(Ok(<<<<"Text">>>>)), Ok(Ok(<<<<"Text">>, <<"More", Space, "text">>>>))}

\* provider.get_more_information(&movie)
GetMoreInformation(movie, page) ==
    LET r == GetMoreInformationResult(more_information_urls, movie, page)
    IN  /\ calls < MaxCalls
        /\ info' = Some([movie |-> movie, page |-> page, urls |-> more_information_urls,
                         res |-> r.res, requests |-> r.requests])
        /\ more_information_urls' = GetMoreInformationUrls(more_information_urls, movie, page)
        /\ calls' = calls + 1
        /\ UNCHANGED fetched
        /\ UNCHANGED <<filterVars, convVars, decodeVars, applyVars, fileVars, guiVars>>

\* get_more_information called on the movie the call before it returned.
GetMoreInformationAgain(page) ==
    /\ IsSome(info)
    /\ LET first == Unwrap(info)
           r == GetMoreInformationResult(more_information_urls, first.res, page)
       IN  /\ calls < MaxCalls
           /\ info' = Some([movie |-> first.res, page |-> page,
                            urls |-> more_information_urls,
                            res |-> r.res, requests |-> r.requests,
                            first |-> [movie |-> first.movie, page |-> first.page,
                                       urls |-> first.urls, res |-> first.res,
                                       requests |-> first.requests]])
           /\ more_information_urls' =
                  GetMoreInformationUrls(more_information_urls, first.res, page)
    /\ calls' = calls + 1
    /\ UNCHANGED fetched
    /\ UNCHANGED <<filterVars, convVars, decodeVars, applyVars, fileVars, guiVars>>

NextInfo ==
    \/ \E listing \in InfoListings : GetProgram(listing, Ok(TRUE))
    \/ \E movie \in InfoMovies, page \in Pages : GetMoreInformation(movie, page)
    \/ \E page \in Pages : GetMoreInformationAgain(page)

SpecInfo == InitFetch /\ [][NextInfo]_vars

----------------------------------------------------------------------------
(* gui/win.rs, gui/movie_list.rs, gui/movie_page.rs: the window.  Its three
   components handle the messages of their streams on the main thread, one at
   a time; the provider calls run on threads of their own. *)

\* T::new(): a new object on the heap.
ProviderNew(h) == [heap |-> Append(h, TvSpielfilmNew), id |-> Len(h) + 1]

\* ProviderClone handing out the object itself.
ProviderCloneShared(h, id) == [heap |-> h, id |-> id]

\* provider.clone(): a new object that holds a copy of the cache.
ProviderClone(h, id) ==
    [heap |-> Append(h, TvSpielfilmClone(h[id])), id |-> Len(h) + 1]

Msg(type, arg) == [type |-> type, arg |-> arg]

\* stream.emit(msg)
Emit(to, msg) == [streams EXCEPT ![to] = Append(@, msg)]

\* The stream's next message is handled.
Handled(on) == [streams EXCEPT ![on] = Tail(@)]

\* The stream's next message is handled and the handler emits msg.
HandledEmit(on, to, msg) == [Handled(on) EXCEPT ![to] = Append(@, msg)]

\* The next message of the component is of this type.
Next_(on, type) ==
    /\ panic = None
    /\ streams[on] # <<>>
    /\ Head(streams[on]).type = type

\* UnwrapOr that takes the default whatever the result.
UnwrapOrDefault(result, default) == default

\* filter_opt.unwrap_or(ProgramFilter::new())
UnwrapOr(result, default) == IF result.ok THEN result.val ELSE default

\* if !filter_path.exists() { let _ = File::create(filter_path.clone()); }
CreateIfAbsent(found, created) ==
    IF found = None /\ created THEN Some(<<>>) ELSE found

\* MovieList::reset_movies: one new row per pair of the program.
ResetMovies(prog, made) == [k \in 1..Len(prog) |-> made + k]

\* The ReloadFinished arm that adds the new pairs to the old.
ReloadFinishedProgramKeep(filter, old, program_res) ==
    IF program_res.ok THEN old \o ProgramFilterFilter(filter, program_res.val)
    ELSE ProgramNew

\* The program the ReloadFinished arm of MovieList::update sets.
ReloadFinishedProgram(filter, old, program_res) ==
    IF program_res.ok THEN ProgramFilterFilter(filter, program_res.val)
    ELSE ProgramNew

\* write_filters that writes the filter of the time before the add.
WriteFiltersStale(old, filter, before, io, n) == WriteToPathResult(old, before, io, n)

\* MovieListModel::write_filters, called after self.model.filter.add(filter).
WriteFilters(old, filter, before, io, n) == WriteToPathResult(filter, before, io, n)

\* MovieListMsg::Reload
MovieListReload ==
    /\ Next_("list", "Reload")
    /\ LET c == ProviderClone(heap, list_model.provider)
       IN  /\ heap' = c.heap
           /\ workers' = workers \cup
                  {[op |-> "get_program", provider |-> c.id, movie |-> None]}
    /\ streams' = Handled("list")
    /\ UNCHANGED <<win_model, list_model, page_model, widgets, clicks, reloaded, panic>>
    /\ UNCHANGED <<filterVars, convVars, decodeVars, applyVars, fileVars, providerVars>>

\* MovieListMsg::ReloadFinished((provider, program_res))
MovieListReloadFinished ==
    /\ Next_("list", "ReloadFinished")
    /\ LET provider == Head(streams.list).arg[1]
           program_res == Head(streams.list).arg[2]
           prog == ReloadFinishedProgram(Self, list_model.program, program_res)
           c == ProviderClone(heap, provider)
       IN  /\ heap' = c.heap
           /\ list_model' = [program |-> prog, provider |-> c.id,
                             rows |-> ResetMovies(prog, widgets)]
           /\ widgets' = widgets + Len(prog)
           /\ streams' = HandledEmit("list", "win", Msg("UpdateProvider", provider))
           /\ reloaded' = Some([res |-> program_res, filter |-> Self,
                                before |-> list_model.program])
    /\ UNCHANGED <<win_model, page_model, workers, clicks, panic>>
    /\ UNCHANGED <<filterVars, convVars, decodeVars, applyVars, fileVars, providerVars>>

\* MovieListMsg::AddFilter(filter), the file system acting on the write as io says.
MovieListAddFilter(io, n) ==
    /\ Next_("list", "AddFilter")
    /\ Add(Head(streams.list).arg)
    /\ streams' = HandledEmit("list", "list", Msg("Reload", <<>>))
    /\ LET r == WriteFilters(Self, Self', file, io, n)
       IN  /\ save' = Some([of |-> Self', first |-> save = None, res |-> r.res])
           /\ file' = r.file
    /\ UNCHANGED <<heap, win_model, list_model, page_model, workers, widgets, clicks,
                   reloaded, panic>>
    /\ UNCHANGED <<convVars, decodeVars, applyVars, lines, load, providerVars>>

\* MovieListMsg::RowActivated(row)
MovieListRowActivated ==
    /\ Next_("list", "RowActivated")
    /\ LET row == Head(streams.list).arg
           found == {k \in 1..Len(list_model.rows) : list_model.rows[k] = row}
       IN  IF found = {}
           THEN /\ panic' = Some("called Option::unwrap() on a None value")
                /\ streams' = Handled("list")
           ELSE /\ streams' = HandledEmit("list", "win",
                        Msg("SelectedMovie", list_model.program[CHOOSE k \in found : TRUE]))
                /\ UNCHANGED panic
    /\ UNCHANGED <<heap, win_model, list_model, page_model, workers, widgets, clicks,
                   reloaded>>
    /\ UNCHANGED <<filterVars, convVars, decodeVars, applyVars, fileVars, providerVars>>

\* WinMsg::SelectedMovie((channel, movie))
WinSelectedMovie ==
    /\ Next_("win", "SelectedMovie")
    /\ streams' = HandledEmit("win", "page", Msg("Set", Head(streams.win).arg))
    /\ UNCHANGED <<heap, win_model, list_model, page_model, workers, widgets, clicks,
                   reloaded, panic>>
    /\ UNCHANGED <<filterVars, convVars, decodeVars, applyVars, fileVars, providerVars>>

\* WinMsg::UpdateProvider(provider)
WinUpdateProvider ==
    /\ Next_("win", "UpdateProvider")
    /\ LET provider == Head(streams.win).arg
           c == ProviderClone(heap, provider)
       IN  /\ heap' = c.heap
           /\ win_model' = [provider |-> c.id]
           /\ streams' = HandledEmit("win", "page", Msg("SetProvider", provider))
    /\ UNCHANGED <<list_model, page_model, workers, widgets, clicks, reloaded, panic>>
    /\ UNCHANGED <<filterVars, convVars, decodeVars, applyVars, fileVars, providerVars>>

\* WinMsg::AddFilter(filter)
WinAddFilter ==
    /\ Next_("win", "AddFilter")
    /\ streams' = HandledEmit("win", "list", Msg("AddFilter", Head(streams.win).arg))
    /\ UNCHANGED <<heap, win_model, list_model, page_model, workers, widgets, clicks,
                   reloaded, panic>>
    /\ UNCHANGED <<filterVars, convVars, decodeVars, applyVars, fileVars, providerVars>>

\* The filter the Filter arm of MoviePage::update makes of the page's entry,
\* None where it returns without one.
FilterOf(item, channel, movie) ==
    CASE item = "ChannelName" ->
             Some(FilterTypeChannel(Name(ChannelGetName(channel))))
      [] item = "MovieTitle" ->
             Some(FilterTypeMovie(Title(MovieGetTitle(movie))))
      [] item = "MovieGenre" ->
             IF IsSome(MovieGetGenre(movie))
             THEN Some(FilterTypeMovie(Genre(Unwrap(MovieGetGenre(movie)))))
             ELSE None
      [] item = "MovieDivision" ->
             IF IsSome(MovieGetDivision(movie))
             THEN Some(FilterTypeMovie(Division(Unwrap(MovieGetDivision(movie)))))
             ELSE None

\* MoviePageMsg::Filter(item)
MoviePageFilter ==
    /\ Next_("page", "Filter")
    /\ LET filter == FilterOf(Head(streams.page).arg, page_model.channel, page_model.movie)
       IN  streams' = IF IsSome(filter)
                      THEN HandledEmit("page", "win", Msg("AddFilter", Unwrap(filter)))
                      ELSE Handled("page")
    /\ UNCHANGED <<heap, win_model, list_model, page_model, workers, widgets, clicks,
                   reloaded, panic>>
    /\ UNCHANGED <<filterVars, convVars, decodeVars, applyVars, fileVars, providerVars>>

\* MoviePageMsg::Set((channel, movie))
MoviePageSet ==
    /\ Next_("page", "Set")
    /\ LET channel == Head(streams.page).arg[1]
           movie == Head(streams.page).arg[2]
           c == ProviderClone(heap, page_model.provider)
       IN  /\ heap' = c.heap
           /\ page_model' = [page_model EXCEPT !.channel = channel, !.movie = movie]
           /\ workers' = workers \cup
                  {[op |-> "get_more_information", provider |-> c.id,
                    movie |-> Some(movie)]}
    /\ streams' = Handled("page")
    /\ UNCHANGED <<win_model, list_model, widgets, clicks, reloaded, panic>>
    /\ UNCHANGED <<filterVars, convVars, decodeVars, applyVars, fileVars, providerVars>>

\* MoviePageMsg::SetMovie(movie)
MoviePageSetMovie ==
    /\ Next_("page", "SetMovie")
    /\ page_model' = [page_model EXCEPT !.movie = Head(streams.page).arg]
    /\ streams' = Handled("page")
    /\ UNCHANGED <<heap, win_model, list_model, workers, widgets, clicks, reloaded, panic>>
    /\ UNCHANGED <<filterVars, convVars, decodeVars, applyVars, fileVars, providerVars>>

\* A SetProvider arm that keeps the provider the page has.
SetProviderKeep(model, provider) == model

\* self.model.provider = provider
SetProvider(model, provider) == [model EXCEPT !.provider = provider]

\* MoviePageMsg::SetProvider(provider)
MoviePageSetProvider ==
    /\ Next_("page", "SetProvider")
    /\ page_model' = SetProvider(page_model, Head(streams.page).arg)
    /\ streams' = Handled("page")
    /\ UNCHANGED <<heap, win_model, list_model, workers, widgets, clicks, reloaded, panic>>
    /\ UNCHANGED <<filterVars, convVars, decodeVars, applyVars, fileVars, providerVars>>

\* The thread Reload spawned: provider.get_program(), then
\* sender.send((provider, program)).  A panic ends the thread and nothing is sent.
ReloadThread(w, listing, sprite) ==
    /\ panic = None
    /\ w \in workers
    /\ w.op = "get_program"
    /\ LET r == GetProgramResult(heap[w.provider], listing, sprite)
       IN  /\ heap' = [heap EXCEPT ![w.provider] = r.urls]
           /\ streams' = IF "panic" \in DOMAIN r.res THEN streams
                          ELSE Emit("list", Msg("ReloadFinished", <<w.provider, r.res>>))
    /\ workers' = workers \ {w}
    /\ UNCHANGED <<win_model, list_model, page_model, widgets, clicks, reloaded, panic>>
    /\ UNCHANGED <<filterVars, convVars, decodeVars, applyVars, fileVars, providerVars>>

\* The thread Set spawned: provider.get_more_information(&movie), then
\* sender.send(information_movie).
SetThread(w, page) ==
    /\ panic = None
    /\ w \in workers
    /\ w.op = "get_more_information"
    /\ LET r == GetMoreInformationResult(heap[w.provider], Unwrap(w.movie), page)
       IN  streams' = Emit("page", Msg("SetMovie", r.res))
    /\ heap' = [heap EXCEPT ![w.provider] =
                    GetMoreInformationUrls(heap[w.provider], Unwrap(w.movie), page)]
    /\ workers' = workers \ {w}
    /\ UNCHANGED <<win_model, list_model, page_model, widgets, clicks, reloaded,
                   panic>>
    /\ UNCHANGED <<filterVars, convVars, decodeVars, applyVars, fileVars, providerVars>>

\* The user clicks the Reload button.
ClickReload ==
    /\ panic = None
    /\ clicks < MaxClicks
    /\ clicks' = clicks + 1
    /\ streams' = Emit("list", Msg("Reload", <<>>))
    /\ UNCHANGED <<heap, win_model, list_model, page_model, workers, widgets, reloaded,
                   panic>>
    /\ UNCHANGED <<filterVars, convVars, decodeVars, applyVars, fileVars, providerVars>>

\* The user activates the k-th row of the list.
ActivateRow(k) ==
    /\ panic = None
    /\ clicks < MaxClicks
    /\ k \in 1..Len(list_model.rows)
    /\ clicks' = clicks + 1
    /\ streams' = Emit("list", Msg("RowActivated", list_model.rows[k]))
    /\ UNCHANGED <<heap, win_model, list_model, page_model, workers, widgets, reloaded,
                   panic>>
    /\ UNCHANGED <<filterVars, convVars, decodeVars, applyVars, fileVars, providerVars>>

\* The user clicks one of the four block buttons of the movie page.
ClickFilter(item) ==
    /\ panic = None
    /\ clicks < MaxClicks
    /\ clicks' = clicks + 1
    /\ streams' = Emit("page", Msg("Filter", item))
    /\ UNCHANGED <<heap, win_model, list_model, page_model, workers, widgets, reloaded,
                   panic>>
    /\ UNCHANGED <<filterVars, convVars, decodeVars, applyVars, fileVars, providerVars>>

FilterList == {"ChannelName", "MovieTitle", "MovieGenre", "MovieDivision"}

\* What the network serves a reload: no listing, two rows of which the filter
\* file's rule matches one, a row after which the thread panics.
GuiFetches ==
    {<<Err("reqwest"), Ok(TRUE)>>,
     <<Ok(<<RowHeute, RowHeuteARD>>), Ok(TRUE)>>,
     <<Ok(<<RowHeute, RowNoChannelTitle>>), Ok(TRUE)>>}

GuiPages == {Err("reqwest"), Ok(Ok(<<<<"Text">>>>))}

\* The filter file the program finds when it starts: none or an empty one, one
\* rule, a movie rule and a blank line before a channel rule, an unknown tag,
\* three fields.
StartTexts ==
    {<<>>,
     <<<<Plain(TagName), Plain(ZDF)>>>>,
     <<<<Plain(TagTitle), Plain(<<"Film">>)>>, <<Plain(Empty)>>,
       <<Plain(TagName), Plain(ZDF)>>>>,
     <<<<Plain(TagNan), Plain(ZDF)>>>>,
     <<<<Plain(TagName), Plain(ZDF)>>, <<Plain(TagName), Plain(ZDF), Plain(ZDF)>>>>}

\* The filter file while the window is used: empty, or one rule.
GuiTexts == {<<>>, <<<<Plain(TagName), Plain(ZDF)>>>>}

\* Win::model and Win::view, MovieList::model with the filter file it finds,
\* MoviePage::model.  The file holds one of texts or, where a text is empty,
\* is absent; creating it ends as one of creations says and opening it as one
\* of ios says.
Start(texts, creations, ios) ==
    /\ added = <<>>
    /\ records = None
    /\ decoded = None
    /\ input = <<>>
    /\ output = None
    /\ program = ProgramNew
    /\ filtered = None
    /\ lines \in texts
    /\ save = None
    /\ \E found \in {Some(TextBytes(lines))} \cup (IF lines = <<>> THEN {None} ELSE {}),
          created \in creations, io \in ios :
          /\ file = CreateIfAbsent(found, created)
          /\ load = Some([io |-> io, res |-> ReadFromPathResult(file, io)])
          /\ channel_filters = UnwrapOr(Unwrap(load).res, ProgramFilterNew).channel_filters
          /\ movie_filters = UnwrapOr(Unwrap(load).res, ProgramFilterNew).movie_filters
    /\ more_information_urls = TvSpielfilmNew
    /\ fetched = None
    /\ calls = 0
    /\ info = None
    /\ LET of_win == ProviderNew(<<>>)
           of_list == ProviderClone(of_win.heap, of_win.id)
           of_page == ProviderNew(of_list.heap)
       IN  /\ heap = of_page.heap
           /\ win_model = [provider |-> of_win.id]
           /\ list_model = [program |-> ProgramNew, provider |-> of_list.id,
                            rows |-> <<>>]
           /\ page_model = [channel |-> ChannelNew(Empty), movie |-> MovieNew(Empty),
                            provider |-> of_page.id]
    /\ streams = [win |-> <<>>, list |-> <<Msg("Reload", <<>>)>>, page |-> <<>>]
    /\ workers = {}
    /\ widgets = 0
    /\ clicks = 0
    /\ reloaded = None
    /\ panic = None

InitGui == Start(GuiTexts, {TRUE}, {"ok"})

NextGui ==
    \/ MovieListReload
    \/ MovieListReloadFinished
    \/ \E io \in {"ok", "open"} : MovieListAddFilter(io, 0)
    \/ \E n \in 0..1 : MovieListAddFilter("write", n)
    \/ MovieListRowActivated
    \/ WinSelectedMovie
    \/ WinUpdateProvider
    \/ WinAddFilter
    \/ MoviePageFilter
    \/ MoviePageSet
    \/ MoviePageSetMovie
    \/ MoviePageSetProvider
    \/ \E w \in workers, f \in GuiFetches : ReloadThread(w, f[1], f[2])
    \/ \E w \in workers, page \in GuiPages : SetThread(w, page)
    \/ ClickReload
    \/ \E k \in 1..MaxPairs : ActivateRow(k)
    \/ \E item \in FilterList : ClickFilter(item)

SpecGui == InitGui /\ [][NextGui]_vars

\* A user action, a click or a row activation: the signal handler emits msg.
Tap(to, msg) ==
    /\ panic = None
    /\ clicks < MaxTaps
    /\ clicks' = clicks + 1
    /\ streams' = Emit(to, msg)
    /\ UNCHANGED <<heap, win_model, list_model, page_model, workers, widgets, reloaded,
                   panic>>
    /\ UNCHANGED <<filterVars, convVars, decodeVars, applyVars, fileVars, providerVars>>

\* What the network serves a reload while the user reloads and selects: two
\* movies on two channels with a detail page each, or one movie without a
\* detail page.
SelectFetches ==
    {<<Ok(<<RowHeute, RowFilmARD>>), Ok(TRUE)>>,
     <<Ok(<<RowFilm>>), Ok(TRUE)>>}

\* The window starts with an empty filter file; the user reloads and selects
\* rows, and blocks nothing.
InitSelect == Start({<<>>}, {TRUE}, {"ok"})

NextSelect ==
    \/ MovieListReload
    \/ \E w \in workers, f \in SelectFetches : ReloadThread(w, f[1], f[2])
    \/ MovieListReloadFinished
    \/ WinUpdateProvider
    \/ MoviePageSetProvider
    \/ MovieListRowActivated
    \/ WinSelectedMovie
    \/ MoviePageSet
    \/ \E w \in workers, page \in GuiPages : SetThread(w, page)
    \/ MoviePageSetMovie
    \/ Tap("list", Msg("Reload", <<>>))
    \/ \E k \in 1..Len(list_model.rows) : Tap("list", Msg("RowActivated", list_model.rows[k]))

SpecSelect == InitSelect /\ [][NextSelect]_vars

\* The same window, the user also blocking what the page shows, and a reload
\* thread that may panic.
NextSession ==
    \/ MovieListReload
    \/ \E w \in workers, f \in GuiFetches : ReloadThread(w, f[1], f[2])
    \/ MovieListReloadFinished
    \/ WinUpdateProvider
    \/ MoviePageSetProvider
    \/ MovieListRowActivated
    \/ WinSelectedMovie
    \/ MoviePageSet
    \/ \E w \in workers, page \in GuiPages : SetThread(w, page)
    \/ MoviePageSetMovie
    \/ Tap("list", Msg("Reload", <<>>))
    \/ \E k \in 1..Len(list_model.rows) : Tap("list", Msg("RowActivated", list_model.rows[k]))
    \/ MoviePageFilter
    \/ WinAddFilter
    \/ MovieListAddFilter("ok", 0)
    \/ \E item \in FilterList : Tap("page", Msg("Filter", item))

SpecSession == InitSelect /\ [][NextSession]_vars

\* The window starts and loads the program, the user not acting.
InitStart == Start(StartTexts, BOOLEAN, {"ok", "open"})

NextStart ==
    \/ MovieListReload
    \/ \E w \in workers, f \in GuiFetches : ReloadThread(w, f[1], f[2])
    \/ MovieListReloadFinished
    \/ WinUpdateProvider
    \/ MoviePageSetProvider

SpecStart == InitStart /\ [][NextStart]_vars

----------------------------------------------------------------------------
(* The properties. *)

KnownTags == {TagName, TagTitle, TagGenre, TagDivision}
MovieTags == {TagTitle, TagGenre, TagDivision}

\* The tag a movie attribute is written under.
TagOf(variant) ==
    CASE variant = "Title" -> TagTitle
      [] variant = "Genre" -> TagGenre
      [] variant = "Division" -> TagDivision

\* C1: a ProgramFilter built by add calls, converted to its record list and
\* back, gives Ok of an equal ProgramFilter: the same channel predicates in the
\* same order and the same movie predicates in the same order.
C1_RoundTrip ==
    IsSome(decoded) =>
        LET d == Unwrap(decoded)
        IN  /\ d.res.ok
            /\ d.res.val.channel_filters = d.of.channel_filters
            /\ d.res.val.movie_filters = d.of.movie_filters

\* A filter with channel and movie rules, one of them twice, went there and back.
C1_Witness ==
    /\ IsSome(decoded)
    /\ Len(Unwrap(decoded).of.channel_filters) >= 1
    /\ Len(Unwrap(decoded).of.movie_filters) >= 2
    /\ Unwrap(decoded).of.movie_filters[1] = Unwrap(decoded).of.movie_filters[2]
    /\ Unwrap(decoded).res.ok

\* C2: the record list made from a ProgramFilter has every "name" record before
\* every "title", "genre" or "division" record, and each group lists its
\* attributes in the order they were added.
C2_ChannelsFirst ==
    IsSome(records) =>
        LET r == Unwrap(records)
            chans == SelectSeq(r.log, LAMBDA f : f.type = "Channel")
            movs == SelectSeq(r.log, LAMBDA f : f.type = "Movie")
        IN  /\ \A i, j \in 1..Len(r.vec) :
                   (r.vec[i][1] \in MovieTags /\ r.vec[j][1] = TagName) => j < i
            /\ SelectSeq(r.vec, LAMBDA rec : rec[1] = TagName)
                   = [k \in 1..Len(chans) |-> <<TagName, chans[k].attr.value>>]
            /\ SelectSeq(r.vec, LAMBDA rec : rec[1] # TagName)
                   = [k \in 1..Len(movs) |->
                         <<TagOf(movs[k].attr.variant), movs[k].attr.value>>]

\* A movie rule was added before a channel rule, and the list was made.
C2_Witness ==
    /\ IsSome(records)
    /\ Len(Unwrap(records).log) >= 3
    /\ Unwrap(records).log[1].type = "Movie"
    /\ Unwrap(records).log[2].type = "Channel"
    /\ Unwrap(records).log[3].type = "Movie"

\* A record whose tag neither decoder knows, or both know.
BadRecord(rec) ==
    \/ rec[1] \notin KnownTags
    \/ ChannelAttributeTryFrom(rec).ok /\ MovieAttributeTryFrom(rec).ok

\* C3: converting a record list with at least one record whose tag is outside
\* {name, title, genre, division} (or known to both decoders) fails and gives no
\* filter, wherever the record sits and whatever surrounds it.
C3_UnknownTagFails ==
    IsSome(output) =>
        ((\E k \in 1..Len(input) : BadRecord(input[k]))
            => Unwrap(output).res = Err("unit"))

\* The bad record sat between two good ones.
C3_Witness ==
    /\ IsSome(output)
    /\ Len(input) = 3
    /\ ~BadRecord(input[1])
    /\ BadRecord(input[2])
    /\ ~BadRecord(input[3])
    /\ ~Unwrap(output).res.ok

\* Whether a pair is to be removed, spelled out on the fields.
Removed(by, pair) ==
    \/ \E i \in 1..Len(by.channel_filters) :
           by.channel_filters[i].value = pair[1].name
    \/ \E i \in 1..Len(by.movie_filters) :
           LET f == by.movie_filters[i]
           IN  \/ f.variant = "Title" /\ f.value = pair[2].title
               \/ f.variant = "Genre" /\ pair[2].genre = <<f.value>>
               \/ f.variant = "Division" /\ pair[2].division = <<f.value>>

\* The indexes of the pairs of prog that stay.
Kept(by, prog) == {i \in 1..Len(prog) : ~Removed(by, prog[i])}

\* C4: filter returns exactly the pairs no predicate matches, in their order
\* in the program: pair j of the result is the j-th kept pair of the program.
C4_FilterExact ==
    IsSome(filtered) =>
        LET f == Unwrap(filtered)
            kept == Kept(f.by, program)
        IN  /\ Len(f.res) = Cardinality(kept)
            /\ \A i \in kept :
                   f.res[Cardinality({k \in kept : k <= i})] = program[i]

\* A program of three pairs lost the middle one, to a movie rule.
C4_Witness ==
    /\ IsSome(filtered)
    /\ Len(program) = 3
    /\ Kept(Unwrap(filtered).by, program) = {1, 3}
    /\ Unwrap(filtered).res = <<program[1], program[3]>>
    /\ program[1] # program[3]
    /\ Unwrap(filtered).by.channel_filters = <<>>

ItemChannels == {p[1] : p \in Pairs}
ItemMovies == {p[2] : p \in Pairs}

\* Filters.matches is true exactly when some predicate of the collection matches.
MatchesIsAny(filters, items) ==
    \A item \in items :
        FiltersMatches(filters, item)
            <=> \E i \in 1..Len(filters) : FilterMatches(filters[i], item)

\* C5: Filters.matches(item) is true iff at least one predicate of the
\* collection matches item (so false for the empty collection), and once it is
\* true for an item it stays true after every further add.
C5_MatchesAny ==
    /\ [](/\ MatchesIsAny(channel_filters, ItemChannels)
          /\ MatchesIsAny(movie_filters, ItemMovies)
          /\ (channel_filters = <<>> =>
                 \A item \in ItemChannels : ~FiltersMatches(channel_filters, item))
          /\ (movie_filters = <<>> =>
                 \A item \in ItemMovies : ~FiltersMatches(movie_filters, item)))
    /\ [][/\ \A item \in ItemChannels :
                FiltersMatches(channel_filters, item)
                    => FiltersMatches(channel_filters', item)
          /\ \A item \in ItemMovies :
                FiltersMatches(movie_filters, item)
                    => FiltersMatches(movie_filters', item)]_vars

\* A matching predicate was added, then one that does not match.
C5_Witness ==
    /\ Len(channel_filters) = 2
    /\ FilterMatches(channel_filters[1], ChannelNew(ZDF))
    /\ ~FilterMatches(channel_filters[2], ChannelNew(ZDF))
    /\ FiltersMatches(channel_filters, ChannelNew(ZDF))
    /\ Len(movie_filters) = 1
    /\ ~FiltersMatches(movie_filters, M1)

\* C6: a Name, Title, Genre or Division predicate matches exactly when its
\* value equals the entity's field as a string, character for character; a
\* Genre (Division) predicate never matches a movie without genre (division),
\* whatever its value, the empty string included.
C6_ExactEquality ==
    \A k \in 1..Len(program) :
        /\ \A i \in 1..Len(channel_filters) :
               FilterMatches(channel_filters[i], program[k][1])
                   <=> channel_filters[i].value = program[k][1].name
        /\ \A i \in 1..Len(movie_filters) :
               LET f == movie_filters[i]
                   m == program[k][2]
               IN  /\ f.variant = "Title" =>
                          (FilterMatches(f, m) <=> f.value = m.title)
                   /\ f.variant = "Genre" =>
                          /\ FilterMatches(f, m)
                                 <=> (Len(m.genre) = 1 /\ m.genre[1] = f.value)
                          /\ m.genre = None => ~FilterMatches(f, m)
                   /\ f.variant = "Division" =>
                          /\ FilterMatches(f, m)
                                 <=> (Len(m.division) = 1 /\ m.division[1] = f.value)
                          /\ m.division = None => ~FilterMatches(f, m)

\* A Genre("") rule met a movie without genre and the pair stayed, while a
\* Name("zdf") rule met the channel "ZDF".
C6_Witness ==
    /\ IsSome(filtered)
    /\ program = <<<<ChannelNew(ZDF), M1>>>>
    /\ Unwrap(filtered).by = ProgramFilter(<<Name(Zdf)>>, <<Genre(Empty)>>)
    /\ Unwrap(filtered).res = program

\* The records of a filter in canonical order, spelled out.
CanonicalRecords(f) ==
    [k \in 1..Len(f.channel_filters) |-> <<TagName, f.channel_filters[k].value>>]
        \o [k \in 1..Len(f.movie_filters) |->
               <<TagOf(f.movie_filters[k].variant), f.movie_filters[k].value>>]

\* C7: after a write_to_path(f) that returned Ok, whatever the file held
\* before, the file holds exactly the records of f in canonical order, and a
\* read_from_path of it (that can open and read the file) returns Ok(f).
C7_WriteThenRead ==
    (IsSome(save) /\ Unwrap(save).res.ok) =>
        /\ IsSome(file)
        /\ ReaderRecords(Unwrap(file)) = CanonicalRecords(Unwrap(save).of)
        /\ (IsSome(load) /\ Unwrap(load).io = "ok")
               => Unwrap(load).res = Ok(Unwrap(save).of)

\* A filter of two rules, one with an empty value and one with a value the
\* writer quotes, replaced a longer file of two lines and was read back.
C7_Witness ==
    /\ IsSome(save)
    /\ Unwrap(save).res.ok
    /\ Unwrap(save).first
    /\ Len(lines) = 2
    /\ Len(TextBytes(lines)) > Len(Unwrap(file))
    /\ Unwrap(save).of =
           ProgramFilter(<<Name(Empty)>>, <<Genre(WithQuote)>>)
    /\ IsSome(load)
    /\ Unwrap(load).io = "ok"
    /\ Unwrap(load).res.ok

\* A text line that is empty.
BlankLine(line) == line = <<Plain(Empty)>>

\* The file cannot be opened or read.
Unreadable == file = None \/ Unwrap(load).io # "ok"

\* Some line with two fields has a tag no decoder knows.
UnknownTagLine ==
    \E k \in 1..Len(lines) : Len(lines[k]) = 2 /\ lines[k][1].text \notin KnownTags

\* C8 as stated: read_from_path returns ParsingFile whenever the file cannot
\* be opened, any line has a field count other than 2, or any record has an
\* unknown tag.
C8_AnyLine ==
    IsSome(load) =>
        ((\/ Unreadable
          \/ \E k \in 1..Len(lines) : Len(lines[k]) # 2
          \/ UnknownTagLine)
            => Unwrap(load).res = Err(ParsingFile))

\* C8: read_from_path returns ParsingFile, and no filter, whenever the file
\* cannot be opened, any line that is not blank has a field count other than 2,
\* or any record has an unknown tag; blank lines are skipped.
C8_NonBlankLine ==
    IsSome(load) =>
        ((\/ Unreadable
          \/ \E k \in 1..Len(lines) : Len(lines[k]) # 2 /\ ~BlankLine(lines[k])
          \/ UnknownTagLine)
            => Unwrap(load).res = Err(ParsingFile))

\* A line of three fields sat between two good lines, and the read failed.
C8_Witness ==
    /\ IsSome(load)
    /\ Unwrap(load).io = "ok"
    /\ Len(lines) = 3
    /\ lines[1] = <<Plain(TagName), Plain(ZDF)>>
    /\ Len(lines[2]) = 3
    /\ lines[3] = <<Plain(TagTitle), Plain(ZDF)>>
    /\ Unwrap(load).res = Err(ParsingFile)

\* The last get_program got the page and a sprite that decodes.
RowsReached ==
    /\ IsSome(fetched)
    /\ Unwrap(fetched).listing.ok
    /\ Unwrap(fetched).sprite = Ok(TRUE)

\* The row lacks the channel name (no anchor, or an anchor without the title
\* attribute that holds the name) or the movie title.
Faulty(row) ==
    \/ row.channel = None
    \/ Unwrap(row.channel).title = None
    \/ row.title = None

\* C9: when a row of the listing lacks the channel name or the movie title,
\* get_program returns Err(ParsingWebsite) and no Program, whatever valid rows
\* came before.
C9_FaultyRowFails ==
    RowsReached =>
        ((\E k \in 1..Len(Unwrap(fetched).listing.val) :
              Faulty(Unwrap(fetched).listing.val[k]))
            => Unwrap(fetched).res = Err(ParsingWebsite))

\* C10: when the listing request fails, the sprite request fails or the sprite
\* does not decode, get_program returns an Err(Error) to its caller, and no
\* Program.
C10_FetchFailureIsErr ==
    IsSome(fetched) =>
        ((\/ ~Unwrap(fetched).listing.ok
          \/ ~Unwrap(fetched).sprite.ok
          \/ ~Unwrap(fetched).sprite.val)
            => /\ ~Unwrap(fetched).res.ok
               /\ "err" \in DOMAIN Unwrap(fetched).res
               /\ Unwrap(fetched).res.err \in {Networking, ParsingWebsite, ParsingFile})

\* The movies are equal in title, year, genre, division and description.
SameMovie(m, n) ==
    /\ m.title = n.title
    /\ m.year = n.year
    /\ m.genre = n.genre
    /\ m.division = n.division
    /\ m.description = n.description

\* The last get_more_information found a URL for its movie.
CacheHit == \E k \in DOMAIN Unwrap(info).urls : SameMovie(k, Unwrap(info).movie)

\* The last get_more_information failed on its path: the request, reading the
\* body, or a page that holds no description paragraph.
InfoFailure ==
    /\ CacheHit
    /\ \/ ~Unwrap(info).page.ok
       \/ ~Unwrap(info).page.val.ok
       \/ Unwrap(info).page.val.val = <<>>

\* C11: get_more_information returns a Movie, and when the request fails,
\* reading the body fails or the page gives no description it returns the
\* input movie, description included.
C11_FailureReturnsInput ==
    IsSome(info) =>
        /\ DOMAIN Unwrap(info).res = DOMAIN Unwrap(info).movie
        /\ InfoFailure => Unwrap(info).res = Unwrap(info).movie

\* C12: a movie that is no key of the cache comes back unchanged, and no
\* request is made.
C12_MissNoRequest ==
    (IsSome(info) /\ Unwrap(info).movie \notin DOMAIN Unwrap(info).urls) =>
        /\ Unwrap(info).res = Unwrap(info).movie
        /\ Unwrap(info).requests = <<>>

\* A miss on a cache that holds a movie of the same title, the detail pages
\* being served.
C12_Witness ==
    /\ IsSome(info)
    /\ Unwrap(info).movie = [Heute EXCEPT !.description = Some(Empty)]
    /\ Heute \in DOMAIN Unwrap(info).urls
    /\ Unwrap(info).page = Ok(Ok(<<<<"Text">>>>))
    /\ Unwrap(info).requests = <<>>

\* C13: the cache is keyed by the movie's value: a movie equal in all five
\* fields to a key get_program recorded requests that key's URL, and a request
\* is only ever made for the URL of a key equal to the movie in all five fields.
C13_KeyedByValue ==
    IsSome(info) =>
        /\ \A k \in DOMAIN Unwrap(info).urls :
               SameMovie(k, Unwrap(info).movie)
                   => Unwrap(info).requests = <<Unwrap(info).urls[k]>>
        /\ Unwrap(info).requests # <<>> =>
               \E k \in DOMAIN Unwrap(info).urls :
                   /\ SameMovie(k, Unwrap(info).movie)
                   /\ Unwrap(info).requests = <<Unwrap(info).urls[k]>>

\* The movie built apart from any row hits the entry the row of the listing
\* left, here the URL of the last of two rows that give this movie.
C13_Witness ==
    /\ IsSome(info)
    /\ IsSome(fetched)
    /\ Unwrap(fetched).listing = Ok(<<RowFilm, RowHeute, RowHeuteARD>>)
    /\ Unwrap(info).movie = Heute
    /\ Unwrap(info).urls = more_information_urls
    /\ Unwrap(info).requests = <<<<"url2">>>>

\* The description the paragraphs give: each followed by a blank line.
Described(paragraphs) ==
    CASE Len(paragraphs) = 0 -> Empty
      [] Len(paragraphs) = 1 -> paragraphs[1] \o <<LF, LF>>
      [] Len(paragraphs) = 2 -> paragraphs[1] \o <<LF, LF>> \o paragraphs[2] \o <<LF, LF>>

\* C20: on a hit whose page is fetched the movie returned has the input's
\* title, year, genre and division, and as description the matched paragraphs
\* in document order, each followed by "\n\n"; the empty string when none matches.
C20_DescriptionReplaced ==
    (IsSome(info) /\ CacheHit /\ Unwrap(info).page.ok /\ Unwrap(info).page.val.ok) =>
        /\ Unwrap(info).res.title = Unwrap(info).movie.title
        /\ Unwrap(info).res.year = Unwrap(info).movie.year
        /\ Unwrap(info).res.genre = Unwrap(info).movie.genre
        /\ Unwrap(info).res.division = Unwrap(info).movie.division
        /\ Unwrap(info).res.description = Some(Described(Unwrap(info).page.val.val))

\* A hit whose page holds two paragraphs.
C20_Witness ==
    /\ IsSome(info)
    /\ CacheHit
    /\ Unwrap(info).page = Ok(Ok(<<<<"Text">>, <<"More", Space, "text">>>>))
    /\ Unwrap(info).res.description =
           Some(<<"Text", LF, LF, "More", Space, "text", LF, LF>>)
    /\ Unwrap(info).movie.description = None

\* C18: a record list whose tags are all known decodes, and the re-encoding of
\* the result is the list's "name" records in their order followed by its movie
\* records in their order; it is the list itself exactly when no movie record
\* stands before a "name" record.
C18_StablePartition ==
    (IsSome(output) /\ \A k \in 1..Len(input) : input[k][1] \in KnownTags) =>
        /\ Unwrap(output).res.ok
        /\ IsSome(Unwrap(output).back) =>
               LET back == Unwrap(Unwrap(output).back)
               IN  /\ back = SelectSeq(input, LAMBDA rec : rec[1] = TagName)
                              \o SelectSeq(input, LAMBDA rec : rec[1] \in MovieTags)
                   /\ back = input <=>
                          ~\E i, j \in 1..Len(input) :
                                /\ i < j
                                /\ input[i][1] \in MovieTags
                                /\ input[j][1] = TagName

\* A list that holds a "name" record between two movie records was decoded
\* and encoded again.
C18_Witness ==
    /\ IsSome(output)
    /\ IsSome(Unwrap(output).back)
    /\ Len(input) = 3
    /\ input[1][1] = TagGenre
    /\ input[2][1] = TagName
    /\ input[3][1] = TagTitle
    /\ Unwrap(Unwrap(output).back) = <<input[2], input[1], input[3]>>

\* The file as it was before the first write.
PriorFile == IF lines = <<>> THEN {None, Some(<<>>)} ELSE {Some(TextBytes(lines))}

\* C19: after a write_to_path that fails, the filter file holds either its
\* complete previous contents or the complete new contents.
C19_FailedWriteAtomic ==
    (IsSome(save) /\ Unwrap(save).first /\ ~Unwrap(save).res.ok) =>
        \/ file \in PriorFile
        \/ file = Some(WriteRecords(ProgramFilterInto(Unwrap(save).of)))

\* A text line of two fields under a known tag.
GoodLine(line) == Len(line) = 2 /\ line[1].text \in KnownTags

\* The filter file exists, can be read, and each of its lines is blank or good.
StartFileParses ==
    /\ IsSome(file)
    /\ Unwrap(load).io = "ok"
    /\ \A k \in 1..Len(lines) : BlankLine(lines[k]) \/ GoodLine(lines[k])

\* The rules the lines of the filter file stand for, in the order of the lines.
LinesRules(tags) ==
    LET of == SelectSeq(lines, LAMBDA line : GoodLine(line) /\ line[1].text \in tags)
    IN  [k \in 1..Len(of) |->
            [variant |-> CASE of[k][1].text = TagName -> "Name"
                           [] of[k][1].text = TagTitle -> "Title"
                           [] of[k][1].text = TagGenre -> "Genre"
                           [] of[k][1].text = TagDivision -> "Division",
             value |-> of[k][2].text]]

\* C15: when the window has started, the filter in memory is the one the
\* filter file decodes to if the file exists and parses, and the empty filter
\* if it is absent, unreadable or does not parse; the start does not panic.
C15_StartFilter ==
    /\ panic = None
    /\ added = <<>> =>
           Self = IF StartFileParses
                  THEN ProgramFilter(LinesRules({TagName}), LinesRules(MovieTags))
                  ELSE ProgramFilterNew

\* The file held a movie rule, a blank line and a channel rule, and the first
\* program was loaded under the filter of these two rules.
C15_Witness ==
    /\ Len(lines) = 3
    /\ StartFileParses
    /\ Self = ProgramFilter(<<Name(ZDF)>>, <<Title(<<"Film">>)>>)
    /\ IsSome(reloaded)
    /\ Unwrap(reloaded).res.ok
    /\ Len(list_model.program) < Len(Unwrap(reloaded).res.val)

\* C16: handling AddFilter(a) appends a to the filter in memory, emits Reload
\* and attempts one write of the whole filter; whatever the write's result the
\* filter in memory holds a, and after a write that succeeded the file decodes
\* to the filter in memory.
C16_AddFilterPersists ==
    /\ [](IsSome(save) =>
            /\ added # <<>>
            /\ Unwrap(save).of = Self
            /\ LET a == added[Len(added)]
                   group == IF a.type = "Channel" THEN channel_filters ELSE movie_filters
               IN  group # <<>> /\ group[Len(group)] = a.attr
            /\ Unwrap(save).res.ok => ReadFromPathResult(file, "ok") = Ok(Self))
    /\ [][added' # added =>
            /\ Len(added') = Len(added) + 1
            /\ streams'.list # <<>>
            /\ streams'.list[Len(streams'.list)].type = "Reload"
            /\ IsSome(save')
            /\ Unwrap(save').of = Self'
            /\ panic' = panic]_vars

\* A rule was added to the rule of the filter file, and the write succeeded.
C16_Witness ==
    /\ IsSome(save)
    /\ Unwrap(save).res.ok
    /\ lines # <<>>
    /\ Self = ProgramFilter(<<Name(ZDF), Name(Empty)>>, <<>>)
    /\ ReaderRecords(Unwrap(file)) = <<<<TagName, ZDF>>, <<TagName, Empty>>>>

\* The pair is matched by a rule of the filter.
Blocked(filter, pair) ==
    \/ \E i \in 1..Len(filter.channel_filters) :
           FilterMatches(filter.channel_filters[i], pair[1])
    \/ \E i \in 1..Len(filter.movie_filters) :
           FilterMatches(filter.movie_filters[i], pair[2])

\* C17: after a ReloadFinished with Ok(p) the displayed program is p without
\* the pairs the filter of that moment matches, in p's order, and nothing of the
\* program displayed before.
C17_ReloadReplaces ==
    (IsSome(reloaded) /\ Unwrap(reloaded).res.ok) =>
        list_model.program =
            SelectSeq(Unwrap(reloaded).res.val,
                      LAMBDA pair : ~Blocked(Unwrap(reloaded).filter, pair))

\* A second reload finished on a list that showed a pair, and the filter took
\* one of its two pairs away.
C17_Witness ==
    /\ IsSome(reloaded)
    /\ Unwrap(reloaded).res.ok
    /\ Unwrap(reloaded).before # <<>>
    /\ Len(Unwrap(reloaded).res.val) = 2
    /\ Len(list_model.program) = 1
    /\ list_model.program[1][1].name = <<"ARD">>

\* The objects the three components hold.
Held == {win_model.provider, list_model.provider, page_model.provider}

\* The objects on their way in a message.
Sent ==
    {streams.list[k].arg[1] :
         k \in {j \in 1..Len(streams.list) : streams.list[j].type = "ReloadFinished"}}
    \cup {streams.win[k].arg :
         k \in {j \in 1..Len(streams.win) : streams.win[j].type = "UpdateProvider"}}
    \cup {streams.page[k].arg :
         k \in {j \in 1..Len(streams.page) : streams.page[j].type = "SetProvider"}}

\* C14: each thread works on an object of its own, which no component holds
\* and no other thread uses; a get_program on it changes no other object's
\* cache, and the cache a component sees changes only when ReloadFinished or
\* SetProvider installs another object.
C14_CloneIsolated ==
    /\ [](/\ \A w \in workers :
                /\ w.provider \notin Held \cup Sent
                /\ \A v \in workers : v # w => v.provider # w.provider
          /\ win_model.provider # list_model.provider
          /\ win_model.provider # page_model.provider
          /\ list_model.provider # page_model.provider)
    /\ [][/\ \A id \in 1..Len(heap) :
                heap'[id] # heap[id] =>
                    /\ id \notin Held \cup Sent
                    /\ \E w \in workers \ workers' :
                           w.op = "get_program" /\ w.provider = id
          /\ list_model'.provider # list_model.provider =>
                /\ Head(streams.list).type = "ReloadFinished"
                /\ heap'[list_model'.provider] = heap[Head(streams.list).arg[1]]
          /\ heap[list_model.provider] # heap'[list_model'.provider] =>
                Head(streams.list).type = "ReloadFinished"
          /\ heap[page_model.provider] # heap'[page_model'.provider] =>
                Head(streams.page).type = "SetProvider"]_vars

\* A reload's thread filled the cache of its object and sent it, while the
\* list still holds an object with an empty cache and a second thread runs.
C14_Witness ==
    /\ streams.list # <<>>
    /\ Head(streams.list).type = "ReloadFinished"
    /\ DOMAIN heap[Head(streams.list).arg[1]] # {}
    /\ DOMAIN heap[list_model.provider] = {}
    /\ DOMAIN heap[page_model.provider] = {}
    /\ \E w \in workers : w.op = "get_program"

\* The detail URL the row carries: the href of its first ".col-3 span a".
RowHref(row) ==
    IF IsSome(row.anchor) /\ IsSome(Unwrap(row.anchor).href)
    THEN Unwrap(row.anchor).href
    ELSE None

\* C21: the cache changes only in a get_program: a get_more_information, hit,
\* miss or failure, leaves it as it found it, so after any number of them it is
\* as the get_program before them left it.
C21_CacheFrozen ==
    [][/\ info' # info => more_information_urls' = more_information_urls
       /\ more_information_urls' # more_information_urls => fetched' # fetched]_vars

\* A get_program filled the cache, and two get_more_information calls followed,
\* the first one a hit.
C21_Witness ==
    /\ IsSome(info)
    /\ "first" \in DOMAIN Unwrap(info)
    /\ Unwrap(info).first.movie \in DOMAIN Unwrap(info).first.urls
    /\ Unwrap(info).first.page.ok
    /\ more_information_urls = Unwrap(info).first.urls
    /\ calls = 3

\* C22: after a successful get_program the cache holds, for every pair of the
\* returned program whose row carried a detail URL, the returned movie itself
\* as key, its description absent, mapped to the URL of the last row of the
\* listing that carried a URL and gave an equal movie.
C22_CacheHoldsReturned ==
    (IsSome(fetched) /\ Unwrap(fetched).res.ok) =>
        LET rows == Unwrap(fetched).listing.val
            prog == Unwrap(fetched).res.val
        IN  /\ Len(prog) = Len(rows)
            /\ \A k \in 1..Len(rows) :
                   IsSome(RowHref(rows[k])) =>
                       LET movie == prog[k][2]
                           last == CHOOSE j \in 1..Len(rows) :
                                       /\ IsSome(RowHref(rows[j]))
                                       /\ prog[j][2] = movie
                                       /\ \A i \in (j + 1)..Len(rows) :
                                              ~(IsSome(RowHref(rows[i])) /\ prog[i][2] = movie)
                       IN  /\ movie.description = None
                           /\ movie \in DOMAIN more_information_urls
                           /\ Some(more_information_urls[movie]) = RowHref(rows[last])

\* Two rows of one listing gave equal movies with two detail URLs, after a row
\* without one, and the cache holds the URL of the later row.
C22_Witness ==
    /\ IsSome(fetched)
    /\ Unwrap(fetched).res.ok
    /\ Unwrap(fetched).listing = Ok(<<RowFilm, RowHeute, RowHeuteARD>>)
    /\ Unwrap(fetched).res.val[2][2] = Unwrap(fetched).res.val[3][2]
    /\ more_information_urls[Unwrap(fetched).res.val[2][2]] = <<"url2">>

\* The row at which the loop of get_program stops, Len + 1 if at none.
RECURSIVE FaultyRow(_, _)
FaultyRow(rows, k) ==
    IF k > Len(rows) THEN k
    ELSE IF \/ rows[k].channel = None
            \/ Unwrap(rows[k].channel).title = None
            \/ rows[k].title = None
         THEN k
         ELSE FaultyRow(rows, k + 1)

\* C26: over get_program calls, successful or failing, no key leaves the
\* cache, and a get_program that fails at a row leaves in the cache the movies
\* of the rows before it that carried a detail URL.
C26_CacheGrows ==
    /\ []((IsSome(fetched) /\ Unwrap(fetched).listing.ok
                            /\ Unwrap(fetched).sprite = Ok(TRUE)) =>
              LET rows == Unwrap(fetched).listing.val
              IN  \A j \in 1..(FaultyRow(rows, 1) - 1) :
                      IsSome(RowHref(rows[j])) =>
                          RowMovie(rows[j]) \in DOMAIN more_information_urls)
    /\ [][DOMAIN more_information_urls \subseteq DOMAIN more_information_urls']_vars

\* A get_program failed at its second row, after a row with a detail URL, and
\* the cache holds that row's movie beside the movie of an earlier fetch that
\* the listing no longer gives.
C26_Witness ==
    /\ IsSome(fetched)
    /\ Unwrap(fetched).listing = Ok(<<RowFilmARD, RowNoTitle>>)
    /\ Unwrap(fetched).sprite = Ok(TRUE)
    /\ ~Unwrap(fetched).res.ok
    /\ DOMAIN more_information_urls = {Heute, RowMovie(RowFilmARD)}

\* The second of two nested get_more_information calls met the provider and the
\* web the first one met: the same cache, and the same answer to a request the
\* first one made without getting a description from it.
SameProviderAndWeb(i) ==
    /\ i.urls = i.first.urls
    /\ \/ i.page = i.first.page
       \/ i.first.requests = <<>>
       \/ IsSome(i.first.res.description)

Pending(on, type) == \E k \in 1..Len(streams[on]) : streams[on][k].type = type

\* The rows the network may serve while the user reloads and selects.
SelectRows == UNION {{f[1].val[k] : k \in 1..Len(f[1].val)} : f \in SelectFetches}

\* Nothing of a selection is under way: no activation, selection or result
\* waits in a stream and no enrichment thread runs.
PageQuiet ==
    /\ ~Pending("list", "RowActivated")
    /\ ~Pending("win", "SelectedMovie")
    /\ ~Pending("page", "Set")
    /\ ~Pending("page", "SetMovie")
    /\ \A w \in workers : w.op # "get_more_information"

\* C23: once every selection is handled and every enrichment thread has
\* delivered, the movie of the page is, in title, year, genre and division, a
\* movie of the channel the page shows, the one selected last.
C23_ShowsLastSelected ==
    (PageQuiet /\ page_model.channel # ChannelNew(Empty)) =>
        \E row \in SelectRows :
            /\ RowChannel(row) = page_model.channel
            /\ RowMovie(row).title = page_model.movie.title
            /\ RowMovie(row).year = page_model.movie.year
            /\ RowMovie(row).genre = page_model.movie.genre
            /\ RowMovie(row).division = page_model.movie.division

\* The rows that gave the movie all carried a detail URL.
Carried(movie) ==
    /\ \E row \in SelectRows : RowMovie(row) = movie
    /\ \A row \in SelectRows : RowMovie(row) = movie => IsSome(RowHref(row))

\* C25: when the page handles Set for a pair whose row carried a detail URL,
\* the provider the page holds has that movie in its cache, and so has the
\* clone the enrichment thread works on, also when reloads overlap.
C25_ProviderInstalled ==
    /\ (streams.page # <<>> /\ Head(streams.page).type = "Set"
                            /\ Carried(Head(streams.page).arg[2])) =>
           Head(streams.page).arg[2] \in DOMAIN heap[page_model.provider]
    /\ \A w \in workers :
           (w.op = "get_more_information" /\ Carried(Unwrap(w.movie))) =>
               Unwrap(w.movie) \in DOMAIN heap[w.provider]

\* The page is about to handle the selection of a pair with a detail URL, made
\* after the user asked for a second reload, whose thread still runs.
C25_Witness ==
    /\ streams.page # <<>>
    /\ Head(streams.page).type = "Set"
    /\ Head(streams.page).arg[2] = RowMovie(RowFilmARD)
    /\ RowMovie(RowFilmARD) \in DOMAIN heap[page_model.provider]
    /\ \E w \in workers : w.op = "get_program"
    /\ clicks = 2

\* C27: the list has one row per pair of the displayed program, and the row a
\* RowActivated names is found among them, so that the index it computes is
\* that of the pair the row shows.
C27_RowSelectsPair ==
    /\ Len(list_model.rows) = Len(list_model.program)
    /\ panic = None

\* No reload is under way: no Reload and no ReloadFinished waits in the stream
\* and no reload thread runs.
ReloadQuiet ==
    /\ ~Pending("list", "Reload")
    /\ ~Pending("list", "ReloadFinished")
    /\ \A w \in workers : w.op # "get_program"

\* C24: whenever no reload is under way, no pair of the displayed program is
\* matched by the filter in memory.
C24_DisplayedUnmatched ==
    ReloadQuiet => \A k \in 1..Len(list_model.program) :
                       ~Blocked(Self, list_model.program[k])

====
